---- MODULE Spec2Model ----
(***************************************************************************)
(* Model of python/ppo/models.py: the model selector create_agent_model,   *)
(* the two actor-critic model constructors, the encoders, and the PPO      *)
(* objective with its step counter and learning-rate schedule.             *)
(*                                                                         *)
(* Real-valued quantities are exact rationals <<n, d>> with d > 0, kept in *)
(* lowest terms.  Learning rates are counted in units of 1e-10, the end    *)
(* learning rate of the decay schedule.                                    *)
(***************************************************************************)
EXTENDS Integers, Sequences, FiniteSets, TLC

VARIABLES env, hyper, result, global_step, increments, param_updates, feed

vars == <<env, hyper, result, global_step, increments, param_updates, feed>>

----------------------------------------------------------------------------
(* Bounds of the model *)

MaxStateSize == 1
MaxObservations == 1
MaxDecaySteps == 2
MaxGlobalStep == 3
MaxUpdates == 2
MaxBatch == 1

(* Program constants *)

\* end_learning_rate of polynomial_decay, 1e-10, the unit learning rates are counted in
EndLearningRate == 1
\* default lr = 1e-4, in units of 1e-10
DefaultLr == 1000000
\* default h_size
DefaultHSize == 128

----------------------------------------------------------------------------
(* Exact rational arithmetic for the tensors' element values *)

Abs(x) == IF x < 0 THEN -x ELSE x

Min(a, b) == IF a <= b THEN a ELSE b

RECURSIVE GCD(_, _)
GCD(a, b) == IF b = 0 THEN a ELSE GCD(b, a % b)

Rat(n, d) ==
    LET s == IF d < 0 THEN -1 ELSE 1
        g == GCD(Abs(n), Abs(d))
    IN  <<(s * n) \div g, (s * d) \div g>>

RInt(n) == <<n, 1>>
RAdd(a, b) == Rat(a[1] * b[2] + b[1] * a[2], a[2] * b[2])
RSub(a, b) == Rat(a[1] * b[2] - b[1] * a[2], a[2] * b[2])
RMul(a, b) == Rat(a[1] * b[1], a[2] * b[2])
RDiv(a, b) == Rat(a[1] * b[2], a[2] * b[1])
RNeg(a) == <<-a[1], a[2]>>
RLe(a, b) == a[1] * b[2] <= b[1] * a[2]
RLt(a, b) == a[1] * b[2] < b[1] * a[2]
RMinimum(a, b) == IF RLe(a, b) THEN a ELSE b
RMaximum(a, b) == IF RLe(a, b) THEN b ELSE a

----------------------------------------------------------------------------
(* Inputs: the brain of the environment and the hyper-parameters *)

None == [kind |-> "None"]

ActionSpaceTypes == {"continuous", "discrete", "other"}
StateSpaceTypes == {"continuous", "discrete"}
ActionSizes == {2}
CameraSizes == {84, DefaultHSize}
HiddenSizes == {64, DefaultHSize}
LrValues == {EndLearningRate, DefaultLr}
Epsilons == {<<1, 5>>, <<1, 2>>}
Betas == {<<0, 1>>, <<1, 1000>>}

Resolutions == [height : CameraSizes, width : CameraSizes]

RECURSIVE SeqsOfLen(_, _)
SeqsOfLen(S, n) ==
    IF n = 0 THEN {<<>>}
    ELSE {Append(s, x) : s \in SeqsOfLen(S, n - 1), x \in S}

SeqsUpTo(S, n) == UNION {SeqsOfLen(S, k) : k \in 0..n}

Brains ==
    {[action_space_type |-> ast, state_space_type |-> sst, state_space_size |-> sss,
      action_space_size |-> a, number_observations |-> Len(cams),
      camera_resolutions |-> cams] :
        ast \in ActionSpaceTypes, sst \in StateSpaceTypes, sss \in 0..MaxStateSize,
        a \in ActionSizes, cams \in SeqsUpTo(Resolutions, MaxObservations)}

Hypers ==
    [lr : LrValues, h_size : HiddenSizes, epsilon : Epsilons, beta : Betas,
     max_step : 1..MaxDecaySteps]

----------------------------------------------------------------------------
(* The encoders: each returns the latent tensor it builds *)

create_visual_encoder(o_size_h, o_size_w, h_size) ==
    [kind |-> "visual", in_shape |-> <<o_size_h, o_size_w, 1>>, width |-> h_size]

create_continuous_state_encoder(s_size, h_size) ==
    [kind |-> "continuous_state", in_shape |-> <<s_size>>, width |-> h_size]

create_discrete_state_encoder(s_size, h_size) ==
    [kind |-> "discrete_state", in_shape |-> <<1>>, width |-> h_size]

(* The PPO objective: the loss's hyper-parameters and the step counter *)

create_ppo_optimizer(beta, epsilon, lr, max_step) ==
    [beta |-> beta, epsilon |-> epsilon, lr |-> lr, max_step |-> max_step,
     global_step |-> 0]

(* What a constructor or the selector ends with *)

Returned(model, made) ==
    [status |-> "returned", error |-> "", model |-> model, created |-> made]

Raised(err, made) ==
    [status |-> "raised", error |-> err, model |-> None, created |-> made]

Unbuilt == [status |-> "unbuilt", error |-> "", model |-> None, created |-> {}]

ContinuousControlModel(lr, brain, h_size, epsilon, max_step) ==
    LET s_size == brain.state_space_size
        a_size == brain.action_space_size
    IN  Returned(
            [kind |-> "ContinuousControlModel",
             encoders |-> <<>>,
             state_in |-> <<s_size>>,
             hidden_width |-> h_size,
             output_width |-> a_size,
             ppo |-> create_ppo_optimizer(<<0, 1>>, epsilon, lr, max_step)],
            {"policy_head", "value_head", "ppo"})

\* Lines 170-179: the encoders of the modalities the brain has.  Line 172
\* rebinds h_size (and w_size) to the height of the first camera, so every
\* encoder built after it has that width.
DiscreteEncoders(brain, h_size) ==
    LET visual == brain.number_observations > 0
        h_size_2 == IF visual THEN brain.camera_resolutions[1].height ELSE h_size
        w_size == IF visual THEN brain.camera_resolutions[1].height ELSE 0
    IN  [hidden_visual |->
            IF visual THEN create_visual_encoder(h_size_2, w_size, h_size_2) ELSE None,
         hidden_state |->
            IF brain.state_space_size > 0
            THEN IF brain.state_space_type = "continuous"
                 THEN create_continuous_state_encoder(brain.state_space_size, h_size_2)
                 ELSE create_discrete_state_encoder(brain.state_space_size, h_size_2)
            ELSE None]

EncoderList(enc) ==
    (IF enc.hidden_visual # None THEN <<enc.hidden_visual>> ELSE <<>>)
    \o (IF enc.hidden_state # None THEN <<enc.hidden_state>> ELSE <<>>)

EncoderKinds(enc) == {EncoderList(enc)[i].kind : i \in 1..Len(EncoderList(enc))}

\* Lines 184-189: the latent the heads read, one encoder's or the concatenation
HiddenWidth(enc) ==
    IF enc.hidden_visual # None /\ enc.hidden_state = None THEN enc.hidden_visual.width
    ELSE IF enc.hidden_visual = None /\ enc.hidden_state # None THEN enc.hidden_state.width
    ELSE IF enc.hidden_visual # None /\ enc.hidden_state # None
         THEN enc.hidden_visual.width + enc.hidden_state.width
         ELSE 0

\* Lines 191-210: the heads and the PPO objective on the latent
DiscreteHeads(enc, lr, brain, epsilon, beta, max_step) ==
    Returned(
        [kind |-> "DiscreteControlModel",
         encoders |-> EncoderList(enc),
         state_in |-> IF enc.hidden_state # None THEN enc.hidden_state.in_shape ELSE <<>>,
         hidden_width |-> HiddenWidth(enc),
         output_width |-> brain.action_space_size,
         ppo |-> create_ppo_optimizer(beta, epsilon, lr, max_step)],
        EncoderKinds(enc) \cup {"policy_head", "value_head", "ppo"})

\* Mutant: the check of lines 181-183 left out
DiscreteControlModel_no_check(lr, brain, h_size, epsilon, beta, max_step) ==
    DiscreteHeads(DiscreteEncoders(brain, h_size), lr, brain, epsilon, beta, max_step)

DiscreteControlModel(lr, brain, h_size, epsilon, beta, max_step) ==
    LET enc == DiscreteEncoders(brain, h_size)
    IN  IF enc.hidden_visual = None /\ enc.hidden_state = None
        THEN Raised("Exception: No valid network configuration possible",
                    EncoderKinds(enc))
        ELSE DiscreteHeads(enc, lr, brain, epsilon, beta, max_step)

\* Mutant: the continuous branch without the check of number_observations
create_agent_model_any_observations(brain, lr, h_size, epsilon, beta, max_step) ==
    IF brain.action_space_type = "continuous"
    THEN ContinuousControlModel(lr, brain, h_size, epsilon, max_step)
    ELSE IF brain.action_space_type = "discrete"
         THEN DiscreteControlModel(lr, brain, h_size, epsilon, beta, max_step)
         ELSE Returned(None, {})

\* Mutant: the continuous model given the caller's beta, as the discrete one is
create_agent_model_continuous_beta(brain, lr, h_size, epsilon, beta, max_step) ==
    IF brain.action_space_type = "continuous"
    THEN IF brain.number_observations = 0
         THEN LET r == ContinuousControlModel(lr, brain, h_size, epsilon, max_step)
              IN  [r EXCEPT !.model.ppo.beta = beta]
         ELSE Raised("UnityEnvironmentException", {})
    ELSE IF brain.action_space_type = "discrete"
         THEN DiscreteControlModel(lr, brain, h_size, epsilon, beta, max_step)
         ELSE Returned(None, {})

create_agent_model(brain, lr, h_size, epsilon, beta, max_step) ==
    IF brain.action_space_type = "continuous"
    THEN IF brain.number_observations = 0
         THEN ContinuousControlModel(lr, brain, h_size, epsilon, max_step)
         ELSE Raised("UnityEnvironmentException", {})
    ELSE IF brain.action_space_type = "discrete"
         THEN DiscreteControlModel(lr, brain, h_size, epsilon, beta, max_step)
         ELSE Returned(None, {})

----------------------------------------------------------------------------
(* Construction: the caller holds an environment and hyper-parameters and  *)
(* calls create_agent_model once.                                          *)

Init ==
    /\ env \in Brains
    /\ hyper \in Hypers
    /\ result = Unbuilt
    /\ global_step = 0
    /\ increments = 0
    /\ param_updates = 0
    /\ feed = None

Build ==
    /\ result.status = "unbuilt"
    /\ result' = create_agent_model(env, hyper.lr, hyper.h_size, hyper.epsilon,
                                    hyper.beta, hyper.max_step)
    /\ global_step' = IF result'.model # None THEN result'.model.ppo.global_step
                      ELSE global_step
    /\ UNCHANGED <<env, hyper, increments, param_updates, feed>>

Next == Build

Spec == Init /\ [][Next]_vars

----------------------------------------------------------------------------
(* The tensors of the PPO objective, evaluated on what a run feeds them.   *)
(* A feed holds the batch (per element: the current and the old            *)
(* probability of the action taken, and the advantage), the value loss and *)
(* the mean entropy of the run.                                            *)

Probabilities == {<<1, 2>>, <<1, 1>>}
Advantages == {<<-1, 1>>, <<2, 1>>}
ValueLosses == {<<1, 2>>}
Entropies == {<<3, 2>>}

Elements == [probs : Probabilities, old_probs : Probabilities, advantage : Advantages]

Feeds ==
    {[batch |-> b, value_loss |-> v, entropy |-> h] :
        b \in SeqsUpTo(Elements, MaxBatch) \ {<<>>}, v \in ValueLosses, h \in Entropies}

clip_by_value(t, clip_value_min, clip_value_max) ==
    RMaximum(RMinimum(t, clip_value_max), clip_value_min)

r_theta(e) == RDiv(e.probs, e.old_probs)

p_opt_a(e) == RMul(r_theta(e), e.advantage)

p_opt_b(e, epsilon) ==
    RMul(clip_by_value(r_theta(e), RSub(RInt(1), epsilon), RAdd(RInt(1), epsilon)),
         e.advantage)

\* Mutant: tf.maximum in the place of tf.minimum
surrogate_maximum(e, epsilon) == RMaximum(p_opt_a(e), p_opt_b(e, epsilon))

\* tf.minimum(p_opt_a, p_opt_b), elementwise
surrogate(e, epsilon) == RMinimum(p_opt_a(e), p_opt_b(e, epsilon))

RECURSIVE reduce_sum(_)
reduce_sum(s) == IF s = <<>> THEN RInt(0) ELSE RAdd(Head(s), reduce_sum(Tail(s)))

reduce_mean(s) == RDiv(reduce_sum(s), RInt(Len(s)))

policy_loss(ppo, fd) ==
    RNeg(reduce_mean([i \in 1..Len(fd.batch) |-> surrogate(fd.batch[i], ppo.epsilon)]))

loss(ppo, fd) ==
    RSub(RAdd(policy_loss(ppo, fd), fd.value_loss), RMul(ppo.beta, fd.entropy))

\* Mutant: the start and the end learning rate exchanged
learning_rate_exchanged(ppo, step) ==
    LET clamped == Min(step, ppo.max_step)
        decay == RSub(RInt(1), Rat(clamped, ppo.max_step))
    IN  RAdd(RMul(RInt(EndLearningRate - ppo.lr), decay), RInt(ppo.lr))

\* tf.train.polynomial_decay(lr, global_step, max_step, 1e-10, power=1.0)
learning_rate(ppo, step) ==
    LET clamped == Min(step, ppo.max_step)
        decay == RSub(RInt(1), Rat(clamped, ppo.max_step))
    IN  RAdd(RMul(RInt(ppo.lr - EndLearningRate), decay), RInt(EndLearningRate))

----------------------------------------------------------------------------
(* Training: the external loop runs the two ops of a built model, the      *)
(* parameter update and the counter increment, in any order.               *)

Built == result.status = "returned" /\ result.model # None

TrainBrains ==
    {b \in Brains : /\ b.action_space_type \in {"continuous", "discrete"}
                    /\ b.number_observations = 0
                    /\ b.state_space_size = MaxStateSize
                    /\ b.state_space_type = "continuous"}

TrainHypers == {h \in Hypers : h.h_size = DefaultHSize}

\* Mutant: optimizer.minimize(self.loss, global_step=self.global_step)
update_batch_counts_step(fd) ==
    /\ Built
    /\ param_updates < MaxUpdates
    /\ global_step < MaxGlobalStep
    /\ feed' = fd
    /\ param_updates' = param_updates + 1
    /\ global_step' = global_step + 1
    /\ UNCHANGED <<env, hyper, result, increments>>

update_batch(fd) ==
    /\ Built
    /\ param_updates < MaxUpdates
    /\ feed' = fd
    /\ param_updates' = param_updates + 1
    /\ UNCHANGED <<env, hyper, result, global_step, increments>>

\* Mutant: tf.assign(self.global_step, self.global_step)
increment_step_no_add ==
    /\ Built
    /\ increments < MaxGlobalStep
    /\ global_step' = global_step
    /\ increments' = increments + 1
    /\ UNCHANGED <<env, hyper, result, param_updates, feed>>

increment_step ==
    /\ Built
    /\ global_step < MaxGlobalStep
    /\ global_step' = global_step + 1
    /\ increments' = increments + 1
    /\ UNCHANGED <<env, hyper, result, param_updates, feed>>

TrainInit ==
    /\ env \in TrainBrains
    /\ hyper \in TrainHypers
    /\ result = create_agent_model(env, hyper.lr, hyper.h_size, hyper.epsilon,
                                   hyper.beta, hyper.max_step)
    /\ Built
    /\ global_step = result.model.ppo.global_step
    /\ increments = 0
    /\ param_updates = 0
    /\ feed = None

TrainNext ==
    \/ \E fd \in Feeds : update_batch(fd)
    \/ increment_step

TrainSpec == TrainInit /\ [][TrainNext]_vars

----------------------------------------------------------------------------
(* Properties of construction, checked under Spec *)

Called == result.status # "unbuilt"

Heads == {"policy_head", "value_head", "ppo"}

\* C1: on a brain with a continuous action space create_agent_model raises
\* the environment exception and builds nothing when number_observations > 0,
\* and returns the continuous-control model when number_observations = 0.
C1_ContinuousDispatch ==
    (Called /\ env.action_space_type = "continuous") =>
        IF env.number_observations > 0
        THEN /\ result.status = "raised"
             /\ result.error = "UnityEnvironmentException"
             /\ result.model = None
             /\ result.created = {}
        ELSE /\ result.status = "returned"
             /\ result.model.kind = "ContinuousControlModel"

C1_Witness ==
    /\ Called
    /\ env.action_space_type = "continuous"
    /\ env.number_observations > 0
    /\ result.status = "raised"

\* C2: on a brain with a discrete action space, no state and no observations
\* the construction raises "No valid network configuration possible" before a
\* policy head, a value head or the PPO objective exists; with a state or an
\* observation it does not raise.
C2_DiscreteNoInputs ==
    (Called /\ env.action_space_type = "discrete") =>
        IF env.state_space_size = 0 /\ env.number_observations = 0
        THEN /\ result.status = "raised"
             /\ result.error = "Exception: No valid network configuration possible"
             /\ result.model = None
             /\ result.created \cap Heads = {}
        ELSE /\ result.status = "returned"
             /\ result.model.kind = "DiscreteControlModel"

C2_Witness ==
    /\ Called
    /\ env.action_space_type = "discrete"
    /\ env.state_space_size = 0
    /\ env.number_observations = 0
    /\ result.status = "raised"

\* C3: on a brain whose action space type is neither continuous nor discrete
\* create_agent_model raises an error and never returns normally.
C3_UnrecognizedTypeRaises ==
    (Called /\ env.action_space_type \notin {"continuous", "discrete"}) =>
        result.status = "raised"

C3_Witness ==
    /\ Called
    /\ env.action_space_type = "other"
    /\ result.status = "returned"
    /\ result.model = None

\* C4: no model is built for a brain with neither a state nor an observation;
\* with a continuous action space the construction raises an error.
C4_NoInputsNoModel ==
    (Called /\ env.state_space_size = 0 /\ env.number_observations = 0) =>
        /\ result.model = None
        /\ env.action_space_type = "continuous" => result.status = "raised"

C4_Witness ==
    /\ Called
    /\ env.action_space_type = "continuous"
    /\ env.state_space_size = 0
    /\ env.number_observations = 0
    /\ result.model.kind = "ContinuousControlModel"
    /\ result.model.state_in = <<0>>

\* C9: the discrete-control model has exactly one encoder per modality the
\* brain has, each of the width h_size that create_agent_model was given, so
\* the latent of the heads has width h_size, or 2 * h_size with both.
C9_EncoderWidths ==
    (Called /\ result.model.kind = "DiscreteControlModel") =>
        LET encs == result.model.encoders
            kinds == {encs[i].kind : i \in 1..Len(encs)}
            n == (IF env.number_observations > 0 THEN 1 ELSE 0)
                 + (IF env.state_space_size > 0 THEN 1 ELSE 0)
        IN  /\ Len(encs) = n
            /\ ("visual" \in kinds) <=> (env.number_observations > 0)
            /\ (kinds \cap {"continuous_state", "discrete_state"} # {})
                   <=> (env.state_space_size > 0)
            /\ \A i \in 1..Len(encs) : encs[i].width = hyper.h_size
            /\ result.model.hidden_width = n * hyper.h_size

C9_Witness ==
    /\ Called
    /\ result.model.kind = "DiscreteControlModel"
    /\ env.number_observations > 0
    /\ env.state_space_size > 0
    /\ env.camera_resolutions[1].height # hyper.h_size
    /\ result.model.hidden_width = 2 * env.camera_resolutions[1].height

----------------------------------------------------------------------------
(* Properties of training, checked under TrainSpec *)

Ppo == result.model.ppo

\* C5: the step counter is 0 when the model is built, every increment_step
\* (one per combined update-and-increment step) raises it by exactly 1, so it
\* equals the number of increments run, and it never decreases.
C5_StepCounter ==
    /\ [](Built => global_step = increments)
    /\ [][global_step' >= global_step]_vars

C5_Witness ==
    /\ Built
    /\ param_updates = 2
    /\ increments = 2
    /\ global_step = 2

\* C6: the learning rate depends on the step counter alone: it is the base lr
\* at counter 0 and the end rate 1e-10 at counter max_step, it does not rise
\* between them, and over the steps of a run it never rises and stays between
\* the end rate and the base lr.
C6_LearningRate ==
    /\ [](Built =>
            /\ learning_rate(Ppo, 0) = RInt(hyper.lr)
            /\ learning_rate(Ppo, hyper.max_step) = RInt(EndLearningRate)
            /\ \A s1 \in 0..hyper.max_step : \A s2 \in s1..hyper.max_step :
                   RLe(learning_rate(Ppo, s2), learning_rate(Ppo, s1))
            /\ RLe(RInt(EndLearningRate), learning_rate(Ppo, global_step))
            /\ RLe(learning_rate(Ppo, global_step), RInt(hyper.lr)))
    /\ [][\/ global_step' = global_step /\ result' = result
          \/ RLe(learning_rate(result'.model.ppo, global_step'),
                 learning_rate(Ppo, global_step))]_vars

C6_Witness ==
    /\ Built
    /\ hyper.lr = DefaultLr
    /\ hyper.max_step = 2
    /\ global_step = 1
    /\ RLt(RInt(EndLearningRate), learning_rate(Ppo, global_step))
    /\ RLt(learning_rate(Ppo, global_step), RInt(hyper.lr))

Ratio(e) == RDiv(e.probs, e.old_probs)

ClippedHigh(e) ==
    /\ RLt(RInt(0), e.advantage)
    /\ RLt(RAdd(RInt(1), Ppo.epsilon), Ratio(e))

\* C7: for a batch element with advantage > 0 and ratio above 1 + epsilon the
\* surrogate term is (1 + epsilon) * advantage and not ratio * advantage, and
\* no surrogate term is greater than ratio * advantage.
C7_ClippedSurrogate ==
    (Built /\ feed # None) =>
        \A i \in 1..Len(feed.batch) :
            LET e == feed.batch[i]
                term == surrogate(e, Ppo.epsilon)
                unclipped == RMul(Ratio(e), e.advantage)
            IN  /\ RLe(term, unclipped)
                /\ ClippedHigh(e) =>
                       /\ term = RMul(RAdd(RInt(1), Ppo.epsilon), e.advantage)
                       /\ term # unclipped

C7_Witness ==
    /\ Built
    /\ feed # None
    /\ \E i \in 1..Len(feed.batch) : ClippedHigh(feed.batch[i])

\* C8: a step that updates the parameters (update_batch) leaves the step
\* counter and the learning rate as they were, and a step that changes the
\* counter (increment_step) leaves the parameters, the feed and the model as
\* they were.
C8_SeparateOps ==
    [][/\ param_updates' # param_updates =>
              /\ global_step' = global_step
              /\ learning_rate(result'.model.ppo, global_step')
                     = learning_rate(Ppo, global_step)
       /\ global_step' # global_step =>
              /\ param_updates' = param_updates
              /\ feed' = feed
              /\ result' = result]_vars

C8_Witness ==
    /\ Built
    /\ param_updates = 2
    /\ global_step = 0
    /\ learning_rate(Ppo, global_step) = RInt(hyper.lr)

\* C10: the entropy weight of the loss is the caller's beta in the discrete
\* model and 0 in the continuous model, whose loss is policy_loss + value_loss
\* whatever beta create_agent_model was given.
C10_EntropyWeight ==
    Built =>
        /\ result.model.kind = "DiscreteControlModel" =>
               /\ Ppo.beta = hyper.beta
               /\ feed # None =>
                      loss(Ppo, feed) = RSub(RAdd(policy_loss(Ppo, feed), feed.value_loss),
                                             RMul(hyper.beta, feed.entropy))
        /\ result.model.kind = "ContinuousControlModel" =>
               /\ Ppo.beta = RInt(0)
               /\ \A b \in Betas :
                      LET other == create_agent_model(env, hyper.lr, hyper.h_size,
                                                      hyper.epsilon, b, hyper.max_step)
                      IN  feed # None =>
                              /\ loss(other.model.ppo, feed) = loss(Ppo, feed)
                              /\ loss(Ppo, feed) =
                                     RAdd(policy_loss(Ppo, feed), feed.value_loss)

C10_Witness ==
    /\ Built
    /\ result.model.kind = "ContinuousControlModel"
    /\ hyper.beta # RInt(0)
    /\ feed # None
    /\ feed.entropy # RInt(0)

====
